---- MODULE Spec2Model ----
(***************************************************************************)
(* The retrieval core of knockknock: RAGManager (src/models/rag/rag_core.py)*)
(* over the two document stores of src/models/rag/server.py and the        *)
(* embedding provider of src/models/rag/openai_service.py.                  *)
(*                                                                         *)
(* Each caller in Procs makes one call at a time, on a manager built for   *)
(* the call as get_rag_manager does.  A call suspends only where the code  *)
(* awaits the network, i.e. inside create_embedding: the store methods are *)
(* "async def" without an await of their own, so a load or a save runs to  *)
(* completion inside the step that reaches it.                             *)
(*                                                                         *)
(* Spec is one caller on a sound backend; SpecFaults the same calls on a   *)
(* backend that fails; SpecConcurrent two callers at once; SpecStores the  *)
(* two stores given the same calls; SpecChunk is chunk_markdown of         *)
(* src/data/crawling/recap_contents/dedupe_semantic.py applied to a text,  *)
(* SpecDedupe is dedupe_chunks of the same file applied to embedded chunks;*)
(* SpecRetrieve is two callers that retrieve, SpecHttp the requests of one *)
(* client to the app of server.py.                                         *)
(***************************************************************************)
EXTENDS Integers, Sequences, FiniteSets, TLC

VARIABLES
    backend,    \* "fs" (MarkdownFileStore) or "blob" (AzureBlobStore)
    files,      \* the text units: document id -> text as written
    sidecar,    \* .metadata.json: document id -> [embedding, metadata, created_at]
    now,        \* datetime.now(), as a counter (no action here advances it)
    top_k,      \* per caller: RAGManager.top_k of the call's manager
    callers,    \* the callers that make calls
    pc,         \* per caller: "idle", "add_embed", "retrieve_embed" or "done"
    op,         \* per caller: the call in progress, or the last one made
    texts,      \* per caller: add_documents' texts
    metadata,   \* per caller: add_documents' metadata
    existing,   \* per caller: add_documents' list "existing"
    pos,        \* per caller: add_documents' position in texts (the for loop)
    docs,       \* per caller: the list of documents the call loaded
    query,      \* per caller: retrieve_documents' query
    result,     \* per caller: what the last call returned or raised
    trace,      \* per caller: store and provider events of the call (history)
    provided,   \* id -> the vector the provider returned for that document (history)
    lastSaved,  \* what the most recent save_rag_docs was given (history)
    cleared,    \* clear_documents completed and no add_documents saved since (history)
    sidecarOk,  \* the sidecar, where there is one, holds the JSON that was written
    fault,      \* what the backend refuses at present: see Faults
    twin,       \* a store of the other kind, given the same calls: [files, sidecar, ok]
    answer,     \* what the last store call gave, of the store and of its twin
    chunk_text, \* chunk_markdown's text
    max_chars,  \* chunk_markdown's max_chars
    final,      \* chunk_markdown's result, once it has run
    chunked,    \* chunk_markdown has run
    all_chunks, \* dedupe_chunks' chunks
    chunk_embs, \* dedupe_chunks' embeddings
    dup_threshold, \* dedupe_chunks' threshold
    kept_chunks,   \* dedupe_chunks' result, once it has run
    deduped,    \* dedupe_chunks has run
    auth_env,   \* the environment of auth_middleware: see AuthEnvs
    request,    \* the HTTP request in progress, or the last one answered
    response,   \* the status it was answered with, NoStatus until it is
    handled     \* the request reached its handler (history)

(* The condition of the backend, which the environment sets. *)
storeEnv == <<sidecarOk, fault>>

vars == <<backend, files, sidecar, now, top_k, callers, pc, op, texts, metadata,
          existing, pos, docs, query, result, trace, provided, lastSaved, cleared,
          storeEnv, twin, answer, chunk_text, max_chars, final, chunked,
          all_chunks, chunk_embs, dup_threshold, kept_chunks, deduped,
          auth_env, request, response, handled>>

(* The state of the chunker (dedupe_semantic.py). *)
chunkVars == <<chunk_text, max_chars, final, chunked>>

(* The state of the deduplication (dedupe_semantic.py). *)
dedupeVars == <<all_chunks, chunk_embs, dup_threshold, kept_chunks, deduped>>

(* The state of the HTTP layer (server.py). *)
httpVars == <<auth_env, request, response, handled>>

(* The state of what a call of the manager does not touch. *)
others == <<twin, answer, chunkVars, dedupeVars, httpVars>>

---------------------------------------------------------------------------
(* Bounds of the model. *)
MaxIds == 2         \* size of the pool uuid4 draws from: the most documents made
MaxTextLen == 5     \* the longest text given to chunk_markdown
MaxChars == 4       \* the largest max_chars given to chunk_markdown
MaxChunks == 4      \* the most chunks, and the most embeddings, given to dedupe_chunks

(* chunk_markdown: max_chars defaults to 2000. *)
DefaultMaxChars == 2000

(* RAGManager.__init__: top_k defaults to 4. *)
DefaultTopK == 4

Procs == {1, 2}
Ids == 1..MaxIds
Backends == {"fs", "blob"}

CR == "\r"
LF == "\n"
None == "None"

(* Texts are sequences of characters.  The pool has a plain text and one with *)
(* a carriage return, which the text-mode file read translates.               *)
TextPool == {<<"a">>, <<"a", CR, "b">>}
MetadataPool == {None, "m"}
Queries == {<<"q">>, <<"r">>, <<"s">>}

(* Two texts may have one id only once: uuid4 is modelled as the first id of *)
(* the pool not yet given out (ids are opaque, only their equality is used). *)

(* A texts list longer than the pool could not be ingested. *)
MaxBatch == MaxIds

(* The values of top_k: below, at and above every size of the store, and the *)
(* default.                                                                  *)
TopKValues == ((0 - 1)..MaxIds) \cup {DefaultTopK}

---------------------------------------------------------------------------
(* Helpers. *)
Min(a, b) == IF a <= b THEN a ELSE b
Max(a, b) == IF a >= b THEN a ELSE b

RECURSIVE SumSeq(_)
SumSeq(s) == IF s = <<>> THEN 0 ELSE Head(s) + SumSeq(Tail(s))

(* Every enumeration order of a finite set. *)
Perms(S) ==
    {f \in [1..Cardinality(S) -> S] : \A i, j \in 1..Cardinality(S) : f[i] = f[j] => i = j}

SeqsUpTo(S, n) == UNION {[1..k -> S] : k \in 0..n}

---------------------------------------------------------------------------
(* rag_core.py *)

(* created_at: str = "" -- the empty timestamp. *)
NoTime == 0

(* RagDoc and its __post_init__: an empty created_at becomes datetime.now(). *)
RagDoc(id, text, embedding, md, created_at) ==
    [id |-> id, text |-> text, embedding |-> embedding, metadata |-> md,
     created_at |-> IF created_at = NoTime THEN now ELSE created_at]

(* A score is num / sqrt(den), den > 0: the cosine of integer vectors, exactly. *)
ZeroScore == [num |-> 0, den |-> 1]

Dot(a, b) == SumSeq([i \in 1..Len(a) |-> a[i] * b[i]])

cosine_similarity(a, b) ==
    IF Len(a) # Len(b) THEN ZeroScore
    ELSE IF Dot(a, a) = 0 \/ Dot(b, b) = 0 THEN ZeroScore
    ELSE [num |-> Dot(a, b), den |-> Dot(a, a) * Dot(b, b)]

Sign(x) == IF x > 0 THEN 1 ELSE IF x < 0 THEN 0 - 1 ELSE 0

(* s > t and s = t on scores, by cross-multiplication of the squares. *)
ScoreGT(s, t) == Sign(s.num) * s.num * s.num * t.den > Sign(t.num) * t.num * t.num * s.den
ScoreEQ(s, t) == Sign(s.num) * s.num * s.num * t.den = Sign(t.num) * t.num * t.num * s.den

(* Mutant: add_documents without its check of texts. *)
NoTexts_Unchecked(ts) == FALSE

(* `if not texts` of add_documents. *)
NoTexts(ts) == ts = <<>>

(* Mutant: retrieve_documents without its check of docs. *)
NoDocs_Unchecked(ds) == FALSE

(* `if not docs` of retrieve_documents. *)
NoDocs(ds) == ds = <<>>

(* Mutant: the save moved into the loop, after every document. *)
SaveDue_EachText(i, n) == TRUE

(* The save of add_documents stands after the loop: it is due once the last *)
(* of the n texts, and none before, has its document.                       *)
SaveDue(i, n) == i = n

(* str(uuid.uuid4()): an id never given out before. *)
uuid4(used) == CHOOSE id \in Ids \ used : \A other \in Ids \ used : id <= other

(* scored_docs: each document with its similarity to the query embedding. *)
ScoredDocs(q, ds) ==
    [i \in 1..Len(ds) |-> [doc |-> ds[i], score |-> cosine_similarity(q, ds[i].embedding)]]

(* Mutant: a sort that puts x before the entries of equal score (as sorting *)
(* ascending and reversing the list would).                                *)
RECURSIVE InsertRanked_Unstable(_, _)
InsertRanked_Unstable(r, x) ==
    IF r = <<>> THEN <<x>>
    ELSE IF ~ScoreGT(Head(r).score, x.score) THEN <<x>> \o r
    ELSE <<Head(r)>> \o InsertRanked_Unstable(Tail(r), x)

(* sorted(scored_docs, key=score, reverse=True): a stable sort, so x goes before *)
(* the first entry whose score is strictly lower than its own.                   *)
RECURSIVE InsertRanked(_, _)
InsertRanked(r, x) ==
    IF r = <<>> THEN <<x>>
    ELSE IF ScoreGT(x.score, Head(r).score) THEN <<x>> \o r
    ELSE <<Head(r)>> \o InsertRanked(Tail(r), x)

RECURSIVE SortedByScore(_)
SortedByScore(s) ==
    IF s = <<>> THEN <<>>
    ELSE InsertRanked(SortedByScore(SubSeq(s, 1, Len(s) - 1)), s[Len(s)])

(* Python's s[:k]: the first k items, or all but the last -k when k < 0. *)
SliceTo(s, k) ==
    SubSeq(s, 1, IF k >= 0 THEN Min(k, Len(s)) ELSE Max(Len(s) + k, 0))

(* The value retrieve_documents returns once the query is embedded. *)
Ranked(q, ds, k) ==
    LET top == SliceTo(SortedByScore(ScoredDocs(q, ds)), k)
    IN  [i \in 1..Len(top) |-> top[i].doc]

---------------------------------------------------------------------------
(* openai_service.py *)

(* The embedding model: a deterministic map from text to vector, here with *)
(* integer components.  Against "q" the two document texts score 1 and 0,  *)
(* against "r" they tie, against "s" one scores below zero.                *)
ModelVector(t) ==
    CASE t = <<"a">> -> <<1, 0>>
      [] t = <<"a", CR, "b">> -> <<0, 1>>
      [] t = <<"q">> -> <<1, 0>>
      [] t = <<"r">> -> <<1, 1>>
      [] OTHER -> <<0 - 1, 1>>

(* What the provider may answer to a request for t: the vector, an error    *)
(* status, a payload without the vector, a payload whose "embedding" is not *)
(* a list.                                                                  *)
Responses(t) ==
    {[status |-> 200, shape |-> "list", vector |-> ModelVector(t)],
     [status |-> 500, shape |-> "none", vector |-> <<>>],
     [status |-> 200, shape |-> "missing", vector |-> <<>>],
     [status |-> 200, shape |-> "not_list", vector |-> <<>>]}

(* What the call recorded of an answer: whether the provider gave a vector. *)
ProviderEvent(resp) ==
    IF resp.status = 200 /\ resp.shape = "list" THEN "embed" ELSE "embed_error"

Raise(cls, msg) == [kind |-> "raised", error |-> cls, msg |-> msg, value |-> <<>>]
Return(v) == [kind |-> "returned", error |-> None, msg |-> None, value |-> v]

(* Mutant: a failed request is answered with an empty vector. *)
create_embedding_Placeholder(resp) ==
    IF resp.status # 200 \/ resp.shape # "list" THEN Return(<<>>)
    ELSE Return(resp.vector)

(* _openai_fetch then create_embedding: the vector, or the exception raised. *)
create_embedding(resp) ==
    IF resp.status # 200 THEN Raise("Exception", "request_failed")
    ELSE IF resp.shape = "missing" THEN Raise("ValueError", "invalid_structure")
    ELSE IF resp.shape # "list" THEN Raise("ValueError", "invalid_response")
    ELSE Return(resp.vector)

---------------------------------------------------------------------------
(* server.py: the two stores *)

(* Text-mode read with newline=None: "\r\n" and "\r" both become "\n". *)
RECURSIVE TranslateNewlines(_)
TranslateNewlines(t) ==
    IF t = <<>> THEN <<>>
    ELSE IF Head(t) = CR
         THEN IF Len(t) >= 2 /\ t[2] = LF
              THEN <<LF>> \o TranslateNewlines(SubSeq(t, 3, Len(t)))
              ELSE <<LF>> \o TranslateNewlines(Tail(t))
    ELSE <<Head(t)>> \o TranslateNewlines(Tail(t))

(* os.linesep on POSIX. *)
LineSep == <<LF>>

(* Text-mode write with newline=None: "\n" becomes os.linesep. *)
RECURSIVE WriteNewlines(_)
WriteNewlines(t) ==
    IF t = <<>> THEN <<>>
    ELSE (IF Head(t) = LF THEN LineSep ELSE <<Head(t)>>) \o WriteNewlines(Tail(t))

(* What a store keeps of a text, and what it reads back: the file store goes *)
(* through text mode, the blob store through encode/decode of UTF-8.         *)
WriteText(b, t) == IF b = "fs" THEN WriteNewlines(t) ELSE t
ReadText(b, t) == IF b = "fs" THEN TranslateNewlines(t) ELSE t

(* What the backend may refuse: nothing; everything (the directory or the    *)
(* container cannot be reached); the writing of text units; the writing of   *)
(* the sidecar.                                                              *)
Faults == {"none", "unavailable", "units", "sidecar"}

(* meta for a document without an entry: metadata_map.get(doc_id, {}) read *)
(* with .get("embedding", []), .get("metadata"), .get("created_at", "").   *)
DefaultMeta == [embedding |-> <<>>, metadata |-> None, created_at |-> NoTime]

MetaIn(sc, id) == IF id \in DOMAIN sc THEN sc[id] ELSE DefaultMeta

(* One document of get_rag_docs: the text unit joined with its entry in the *)
(* metadata map sc.                                                         *)
LoadDocIn(b, fl, sc, id) ==
    RagDoc(id, ReadText(b, fl[id]), MetaIn(sc, id).embedding,
           MetaIn(sc, id).metadata, MetaIn(sc, id).created_at)

(* The outer `except Exception` of get_rag_docs is reached: the listing fails, *)
(* or, in the file store, json.load of the sidecar fails.  The blob store      *)
(* reads its sidecar inside a try of its own.                                  *)
LoadFails(b, ok, flt) == flt = "unavailable" \/ (b = "fs" /\ ~ok)

(* metadata_map once the sidecar is read: its entries, or {} where the blob *)
(* store's inner `except` met a sidecar it could not parse.                 *)
MetadataMap(sc, ok) == IF ok THEN sc ELSE [id \in {} |-> DefaultMeta]

(* get_rag_docs of store b holding text units fl and sidecar sc: [] from the *)
(* outer `except`, else one document per text unit in the order listed.      *)
StoreLoad(b, fl, sc, ok, flt, order) ==
    IF LoadFails(b, ok, flt) THEN <<>>
    ELSE [i \in 1..Len(order) |-> LoadDocIn(b, fl, MetadataMap(sc, ok), order[i])]

(* The store of the manager. *)
MetaOf(id) == MetaIn(sidecar, id)
LoadDoc(id) == LoadDocIn(backend, files, sidecar, id)

(* get_rag_docs of the manager's store. *)
get_rag_docs(order) == StoreLoad(backend, files, sidecar, sidecarOk, fault, order)

IdsOf(ds) == {ds[i].id : i \in 1..Len(ds)}

(* The last document of ds with this id: a later write overwrites an earlier. *)
LastWith(ds, id) ==
    ds[CHOOSE i \in 1..Len(ds) :
          ds[i].id = id /\ \A j \in (i + 1)..Len(ds) : ds[j].id # id]

(* A write of save_rag_docs(ds) fails: of the first text unit, or, the units *)
(* written, of the sidecar.                                                  *)
UnitWriteFails(flt, ds) == ds # <<>> /\ flt \in {"unavailable", "units"}
SaveFails(flt, ds) ==
    UnitWriteFails(flt, ds) \/ flt \in {"unavailable", "sidecar"}

(* What save_rag_docs recorded of its writes. *)
StoreEvent(flt, ds) == IF SaveFails(flt, ds) THEN "save_error" ELSE "save"

(* Mutant: save_rag_docs logs the error and returns, as get_rag_docs does. *)
SaveRaises_Swallowed(flt, ds) == FALSE

(* `except Exception as e: logger.error(...); raise` of save_rag_docs. *)
SaveRaises(flt, ds) == SaveFails(flt, ds)

(* save_rag_docs of either store, the text units: one is written per *)
(* document; no unit is removed.                                     *)
UnitsAfterSave(b, fl, ds) ==
    [id \in (DOMAIN fl) \cup IdsOf(ds) |->
        IF id \in IdsOf(ds) THEN WriteText(b, LastWith(ds, id).text)
        ELSE fl[id]]

FilesAfterSave(ds) == UnitsAfterSave(backend, files, ds)

(* save_rag_docs of either store, the sidecar: rewritten from ds alone. *)
SidecarAfterSave(ds) ==
    [id \in IdsOf(ds) |->
        [embedding |-> LastWith(ds, id).embedding,
         metadata |-> LastWith(ds, id).metadata,
         created_at |-> LastWith(ds, id).created_at]]

---------------------------------------------------------------------------
(* dedupe_semantic.py: chunk_markdown.  A string is the sequence of its *)
(* characters, indexed from 1 (Python's index plus one).                *)

(* The characters of the texts: two letters, the space, the newline. *)
Alphabet == {"a", "b", " ", LF}

(* str.strip(): whitespace goes from both ends. *)
IsSpace(c) == c \in {" ", LF, CR}

RECURSIVE lstrip(_)
lstrip(s) == IF s # <<>> /\ IsSpace(Head(s)) THEN lstrip(Tail(s)) ELSE s

RECURSIVE rstrip(_)
rstrip(s) ==
    IF s # <<>> /\ IsSpace(s[Len(s)]) THEN rstrip(SubSeq(s, 1, Len(s) - 1)) ELSE s

(* Mutant: a strip that takes the first character with the whitespace. *)
strip_Greedy(s) == IF s = <<>> THEN <<>> ELSE rstrip(lstrip(Tail(s)))

strip(s) == rstrip(lstrip(s))

StartsWith(s, sep) == Len(s) >= Len(sep) /\ SubSeq(s, 1, Len(sep)) = sep

(* str.split(sep): cut at the occurrences of sep, found from the left. *)
RECURSIVE SplitAcc(_, _, _)
SplitAcc(s, sep, piece) ==
    IF s = <<>> THEN <<piece>>
    ELSE IF StartsWith(s, sep)
         THEN <<piece>> \o SplitAcc(SubSeq(s, Len(sep) + 1, Len(s)), sep, <<>>)
    ELSE SplitAcc(Tail(s), sep, Append(piece, Head(s)))

split(s, sep) == SplitAcc(s, sep, <<>>)

(* sep.join(parts) *)
RECURSIVE join(_, _)
join(parts, sep) ==
    IF parts = <<>> THEN <<>>
    ELSE IF Len(parts) = 1 THEN parts[1]
    ELSE parts[1] \o sep \o join(Tail(parts), sep)

(* paras = [p.strip() for p in text.split('\n\n') if p.strip()] *)
NonBlank(p) == strip(p) # <<>>
Paras(text) ==
    LET kept == SelectSeq(split(text, <<LF, LF>>), NonBlank)
    IN  [i \in 1..Len(kept) |-> strip(kept[i])]

(* `if cur and cur_len + len(p) + 2 > max_chars` of the paragraph loop, and *)
(* `if cur and cur_len + len(L) + 1 > max_chars` of the line loop: 2 and 1  *)
(* are the lengths of the separators.                                       *)
Overflows(cur, cur_len, p, sep, m) == cur # <<>> /\ cur_len + Len(p) + Len(sep) > m

(* The two accumulating loops: items are joined with sep into one chunk until *)
(* the next would overflow; cur_len restarts at len(p) after an overflow and  *)
(* grows by len(p) + len(sep) otherwise.                                      *)
RECURSIVE PackFrom(_, _, _, _, _)
PackFrom(items, sep, m, cur, cur_len) ==
    IF items = <<>> THEN (IF cur # <<>> THEN <<join(cur, sep)>> ELSE <<>>)
    ELSE IF Overflows(cur, cur_len, Head(items), sep, m)
         THEN <<join(cur, sep)>> \o
              PackFrom(Tail(items), sep, m, <<Head(items)>>, Len(Head(items)))
    ELSE PackFrom(Tail(items), sep, m, Append(cur, Head(items)),
                  cur_len + Len(Head(items)) + Len(sep))

(* chunks: the paragraphs, accumulated. *)
Chunks(text, m) == PackFrom(Paras(text), <<LF, LF>>, m, <<>>, 0)

(* out: a chunk longer than max_chars is split at its newlines and the lines *)
(* accumulated.                                                              *)
RECURSIVE SplitLong(_, _)
SplitLong(cs, m) ==
    IF cs = <<>> THEN <<>>
    ELSE (IF Len(Head(cs)) <= m THEN <<Head(cs)>>
          ELSE PackFrom(split(Head(cs), <<LF>>), <<LF>>, m, <<>>, 0))
         \o SplitLong(Tail(cs), m)

(* c.rfind(' ', start, end), on Python's indices: the last index in *)
(* [start, end) that holds a space, or -1.                          *)
rfind(c, start, end) ==
    LET found == {i \in start..(end - 1) : c[i + 1] = " "}
    IN  IF found = {} THEN 0 - 1 ELSE CHOOSE i \in found : \A j \in found : j <= i

(* Mutant: the cut moves back to a space at start itself, `last_space >= start`. *)
SliceEnd_BackToStart(c, start, m) ==
    LET end == Min(start + m, Len(c))
    IN  IF end < Len(c) /\ rfind(c, start, end) >= start THEN rfind(c, start, end)
        ELSE end

(* Mutant: the slices are not cut to max_chars. *)
SliceEnd_Whole(c, start, m) == Len(c)

(* end of the slice that starts at start: max_chars further on, or at the *)
(* last space before that when the slice is not the last.                 *)
SliceEnd(c, start, m) ==
    LET end == Min(start + m, Len(c))
    IN  IF end < Len(c) /\ rfind(c, start, end) > start THEN rfind(c, start, end)
        ELSE end

(* Mutant: the loop stops when less than max_chars is left. *)
RECURSIVE SliceFrom_DropsTail(_, _, _)
SliceFrom_DropsTail(c, start, m) ==
    IF start + m > Len(c) THEN <<>>
    ELSE <<strip(SubSeq(c, start + 1, SliceEnd(c, start, m)))>>
         \o SliceFrom_DropsTail(c, SliceEnd(c, start, m), m)

(* The while loop: c[start:end].strip() for slice after slice. *)
RECURSIVE SliceFrom(_, _, _)
SliceFrom(c, start, m) ==
    IF start >= Len(c) THEN <<>>
    ELSE <<strip(SubSeq(c, start + 1, SliceEnd(c, start, m)))>>
         \o SliceFrom(c, SliceEnd(c, start, m), m)

(* final: a chunk still longer than max_chars is sliced. *)
RECURSIVE SliceLong(_, _)
SliceLong(cs, m) ==
    IF cs = <<>> THEN <<>>
    ELSE (IF Len(Head(cs)) <= m THEN <<Head(cs)>> ELSE SliceFrom(Head(cs), 0, m))
         \o SliceLong(Tail(cs), m)

chunk_markdown(text, m) == SliceLong(SplitLong(Chunks(text, m), m), m)

(* dedupe_semantic.py: the deduplication *)

(* The embeddings of the chunks: vectors with integer components and integer *)
(* norms, so that the floating-point cosine of the code is the exact one.    *)
(* The first four have the cosines 0.6, 0.48, 0.48, 0.8, 0.8 and 0.28        *)
(* between them; then the zero vector and a shorter vector.                  *)
EmbeddingPool == {<<0, 4, 3>>, <<0, 0, 1>>, <<3, 0, 4>>, <<0 - 3, 0, 4>>,
                  <<0, 0, 0>>, <<1>>}

ChunkPool == {<<"a">>, <<"b">>}

(* A threshold is a score: 0.5, 0.8 and the default 0.90. *)
DefaultThreshold == [num |-> 9, den |-> 100]
Thresholds == {[num |-> 1, den |-> 4], [num |-> 4, den |-> 25], DefaultThreshold}

(* zip(a, b): as many pairs as the shorter of the two has items. *)
ZipLen(a, b) == Min(Len(a), Len(b))

(* cosine_similarity of dedupe_semantic.py: dot product and norms are summed *)
(* over zip(a, b).                                                           *)
dedupe_cosine_similarity(a, b) ==
    LET x == SubSeq(a, 1, ZipLen(a, b))
        y == SubSeq(b, 1, ZipLen(a, b))
    IN  IF Dot(x, x) = 0 \/ Dot(y, y) = 0 THEN ZeroScore
        ELSE [num |-> Dot(x, y), den |-> Dot(x, x) * Dot(y, y)]

(* Mutant: a similarity equal to the threshold is no duplicate, `sim > threshold`. *)
ScoreGE_Strict(s, t) == ScoreGT(s, t)

(* Mutant: the comparison turned around, `sim <= threshold`. *)
ScoreGE_Reversed(s, t) == ~ScoreGT(s, t)

(* `sim >= threshold`. *)
ScoreGE(s, t) == ~ScoreGT(t, s)

(* The inner loop of dedupe_chunks: e is a duplicate of some kept embedding. *)
is_dup(e, kept_embs, threshold) ==
    \E k \in 1..Len(kept_embs) :
        ScoreGE(dedupe_cosine_similarity(e, kept_embs[k]), threshold)

(* Mutant: the kept chunk is numbered by its place among the kept ones. *)
KeptAppend_Renumbered(kept, chunks, idx) == Append(kept, <<Len(kept), chunks[idx + 1]>>)

(* `kept.append((idx, c))`, c being the chunk of the pair idx. *)
KeptAppend(kept, chunks, idx) == Append(kept, <<idx, chunks[idx + 1]>>)

(* Mutant: the embedding remembered is the one at the place of the kept chunk *)
(* among the kept ones.                                                      *)
KeptEmbsAppend_ByPlace(kept_embs, embeddings, idx) ==
    Append(kept_embs, embeddings[Len(kept_embs) + 1])

(* `kept_embs.append(e)`, e being the embedding of the pair idx. *)
KeptEmbsAppend(kept_embs, embeddings, idx) == Append(kept_embs, embeddings[idx + 1])

(* The outer loop of dedupe_chunks from the pair idx on (idx counts from 0). *)
RECURSIVE DedupeFrom(_, _, _, _, _, _)
DedupeFrom(chunks, embeddings, threshold, idx, kept, kept_embs) ==
    IF idx >= ZipLen(chunks, embeddings) THEN kept
    ELSE IF is_dup(embeddings[idx + 1], kept_embs, threshold)
         THEN DedupeFrom(chunks, embeddings, threshold, idx + 1, kept, kept_embs)
         ELSE DedupeFrom(chunks, embeddings, threshold, idx + 1,
                         KeptAppend(kept, chunks, idx),
                         KeptEmbsAppend(kept_embs, embeddings, idx))

(* dedupe_chunks: the pairs (orig_index, text) it keeps. *)
dedupe_chunks(chunks, embeddings, threshold) ==
    DedupeFrom(chunks, embeddings, threshold, 0, <<>>, <<>>)

---------------------------------------------------------------------------
(* The state after construction: an empty store of either kind, no call made. *)
NoResult == [kind |-> "none", error |-> None, msg |-> None, value |-> <<>>]

Strip(d) == [id |-> d.id, text |-> d.text, embedding |-> d.embedding,
             metadata |-> d.metadata]
StripAll(ds) == {Strip(ds[i]) : i \in 1..Len(ds)}

Constructed ==
    /\ backend \in Backends
    /\ files = [id \in {} |-> <<>>]
    /\ sidecar = [id \in {} |-> <<>>]
    /\ now = 1
    /\ top_k = [p \in Procs |-> DefaultTopK]
    /\ pc = [p \in Procs |-> "idle"]
    /\ op = [p \in Procs |-> "none"]
    /\ texts = [p \in Procs |-> <<>>]
    /\ metadata = [p \in Procs |-> None]
    /\ existing = [p \in Procs |-> <<>>]
    /\ pos = [p \in Procs |-> 0]
    /\ docs = [p \in Procs |-> <<>>]
    /\ query = [p \in Procs |-> <<>>]
    /\ result = [p \in Procs |-> NoResult]
    /\ trace = [p \in Procs |-> <<>>]
    /\ provided = [id \in {} |-> <<>>]
    /\ lastSaved = [saved |-> FALSE, docs |-> {}]
    /\ cleared = FALSE
    /\ sidecarOk = TRUE
    /\ fault = "none"
    /\ twin = [files |-> [id \in {} |-> <<>>], sidecar |-> [id \in {} |-> <<>>],
               ok |-> TRUE]
    /\ answer = [own |-> NoResult, twin |-> NoResult]

(* chunk_markdown has not been called. *)
ChunkIdle ==
    /\ chunk_text = <<>>
    /\ max_chars = DefaultMaxChars
    /\ final = <<>>
    /\ chunked = FALSE

(* dedupe_chunks has not been called. *)
DedupeIdle ==
    /\ all_chunks = <<>>
    /\ chunk_embs = <<>>
    /\ dup_threshold = DefaultThreshold
    /\ kept_chunks = <<>>
    /\ deduped = FALSE

(* No request has come in; RAG_AUTH_ENABLED and the ENTRA_ settings are unset. *)
NoStatus == 0
NoHeader == [scheme |-> "", token |-> ""]
NoRequest == [method |-> "", path |-> "", authorization |-> NoHeader, texts |-> <<>>,
              q |-> <<>>]
HttpIdle ==
    /\ auth_env = [enabled |-> FALSE, settings |-> FALSE, keys |-> FALSE]
    /\ request = NoRequest
    /\ response = NoStatus
    /\ handled = FALSE

(* One caller makes the calls. *)
Init == Constructed /\ callers = {1} /\ ChunkIdle /\ DedupeIdle /\ HttpIdle

(* save_rag_docs(ds): the store after it, and the history of it. *)
Save(ds) ==
    /\ files' = IF UnitWriteFails(fault, ds) THEN files ELSE FilesAfterSave(ds)
    /\ sidecar' = IF SaveFails(fault, ds) THEN sidecar ELSE SidecarAfterSave(ds)
    /\ sidecarOk' = IF SaveFails(fault, ds) THEN sidecarOk ELSE TRUE
    /\ lastSaved' = IF SaveFails(fault, ds) THEN lastSaved
                    ELSE [saved |-> TRUE, docs |-> StripAll(ds)]

(* What the caller of save_rag_docs(ds) gets: the exception, or its own value. *)
AfterSave(ds, value) ==
    IF SaveRaises(fault, ds) THEN Raise("OSError", "write_failed") ELSE Return(value)

NoSave == UNCHANGED <<files, sidecar, sidecarOk, lastSaved>>

(* A call of p begins, on a manager of its own with top_k = k: the locals of *)
(* the call before are gone.                                                 *)
Begin(p, name, ts, md, q, k) ==
    /\ p \in callers
    /\ pc[p] = "idle"
    /\ op' = [op EXCEPT ![p] = name]
    /\ texts' = [texts EXCEPT ![p] = ts]
    /\ metadata' = [metadata EXCEPT ![p] = md]
    /\ query' = [query EXCEPT ![p] = q]
    /\ top_k' = [top_k EXCEPT ![p] = k]
    /\ UNCHANGED <<others, fault, backend, now, callers>>

(* add_documents up to its first await: the check of texts, the load, and, were *)
(* the loop to have nothing to do, the save and the return.                     *)
AddStart(p, ts, md) ==
    /\ Begin(p, "add", ts, md, <<>>, DefaultTopK)
    /\ pos' = [pos EXCEPT ![p] = 1]
    /\ docs' = [docs EXCEPT ![p] = <<>>]
    /\ UNCHANGED provided
    /\ IF NoTexts(ts)
       THEN /\ result' = [result EXCEPT ![p] = Raise("ValueError", "texts_required")]
            /\ existing' = [existing EXCEPT ![p] = <<>>]
            /\ trace' = [trace EXCEPT ![p] = <<>>]
            /\ pc' = [pc EXCEPT ![p] = "done"]
            /\ UNCHANGED cleared
            /\ NoSave
       ELSE \E order \in Perms(DOMAIN files) :
            /\ existing' = [existing EXCEPT ![p] = get_rag_docs(order)]
            /\ IF ts = <<>>
               THEN /\ Save(get_rag_docs(order))
                    /\ result' = [result EXCEPT ![p] =
                                     AfterSave(get_rag_docs(order), Len(ts))]
                    /\ trace' = [trace EXCEPT ![p] =
                                    <<"load", StoreEvent(fault, get_rag_docs(order))>>]
                    /\ cleared' = (cleared /\ SaveFails(fault, get_rag_docs(order)))
                    /\ pc' = [pc EXCEPT ![p] = "done"]
               ELSE /\ pc' = [pc EXCEPT ![p] = "add_embed"]
                    /\ result' = [result EXCEPT ![p] = NoResult]
                    /\ trace' = [trace EXCEPT ![p] = <<"load">>]
                    /\ UNCHANGED cleared
                    /\ NoSave

(* The provider answers the request for texts[pos]: the exception leaves     *)
(* add_documents; a vector makes the document, and after the last text comes *)
(* the one save and the return.                                              *)
AddEmbed(p, resp) ==
    /\ pc[p] = "add_embed"
    /\ UNCHANGED <<others, fault, backend, now, top_k, callers, op, texts, metadata, docs, query>>
    /\ IF create_embedding(resp).kind = "raised"
       THEN /\ result' = [result EXCEPT ![p] = create_embedding(resp)]
            /\ pc' = [pc EXCEPT ![p] = "done"]
            /\ trace' = [trace EXCEPT ![p] = Append(@, ProviderEvent(resp))]
            /\ UNCHANGED <<existing, pos, provided, cleared>>
            /\ NoSave
       ELSE /\ Ids \ DOMAIN provided # {}
            /\ LET id == uuid4(DOMAIN provided)
                   doc == RagDoc(id, texts[p][pos[p]], create_embedding(resp).value,
                                 metadata[p], NoTime)
                   all == Append(existing[p], doc)
               IN  /\ existing' = [existing EXCEPT ![p] = all]
                   /\ provided' = [i \in (DOMAIN provided) \cup {id} |->
                                      IF i = id THEN resp.vector ELSE provided[i]]
                   /\ IF SaveDue(pos[p], Len(texts[p]))
                      THEN /\ Save(all)
                           /\ cleared' = (cleared /\ SaveFails(fault, all))
                           /\ trace' = [trace EXCEPT ![p] =
                                           @ \o <<ProviderEvent(resp), StoreEvent(fault, all)>>]
                      ELSE /\ NoSave
                           /\ trace' = [trace EXCEPT ![p] = Append(@, ProviderEvent(resp))]
                           /\ UNCHANGED cleared
                   /\ IF SaveDue(pos[p], Len(texts[p])) /\ SaveRaises(fault, all)
                      THEN /\ result' = [result EXCEPT ![p] = AfterSave(all, Len(texts[p]))]
                           /\ pc' = [pc EXCEPT ![p] = "done"]
                           /\ UNCHANGED pos
                      ELSE IF pos[p] < Len(texts[p])
                      THEN /\ pos' = [pos EXCEPT ![p] = @ + 1]
                           /\ UNCHANGED <<pc, result>>
                      ELSE /\ result' = [result EXCEPT ![p] = Return(Len(texts[p]))]
                           /\ pc' = [pc EXCEPT ![p] = "done"]
                           /\ UNCHANGED pos

(* retrieve_documents up to its await, on a manager whose top_k is k (the    *)
(* RAG_TOP_K of POST /api/chat, or set_top_k(limit) of GET /api/search): the *)
(* load, and the return of [] when nothing was loaded.                       *)
RetrieveStart(p, q, k) ==
    /\ Begin(p, "retrieve", <<>>, None, q, k)
    /\ \E order \in Perms(DOMAIN files) :
          /\ docs' = [docs EXCEPT ![p] = get_rag_docs(order)]
          /\ IF NoDocs(get_rag_docs(order))
             THEN /\ result' = [result EXCEPT ![p] = Return(<<>>)]
                  /\ pc' = [pc EXCEPT ![p] = "done"]
             ELSE /\ result' = [result EXCEPT ![p] = NoResult]
                  /\ pc' = [pc EXCEPT ![p] = "retrieve_embed"]
    /\ existing' = [existing EXCEPT ![p] = <<>>]
    /\ pos' = [pos EXCEPT ![p] = 0]
    /\ trace' = [trace EXCEPT ![p] = <<"load">>]
    /\ UNCHANGED <<provided, cleared>>
    /\ NoSave

(* The provider answers the request for the query: the exception leaves *)
(* retrieve_documents; a vector ranks the loaded documents.             *)
RetrieveEmbed(p, resp) ==
    /\ pc[p] = "retrieve_embed"
    /\ pc' = [pc EXCEPT ![p] = "done"]
    /\ IF create_embedding(resp).kind = "raised"
       THEN result' = [result EXCEPT ![p] = create_embedding(resp)]
       ELSE result' = [result EXCEPT ![p] =
                          Return(Ranked(create_embedding(resp).value, docs[p], top_k[p]))]
    /\ trace' = [trace EXCEPT ![p] = Append(@, ProviderEvent(resp))]
    /\ UNCHANGED <<others, fault, backend, now, top_k, callers, op, texts, metadata, existing, pos,
                   docs, query, provided, cleared>>
    /\ NoSave

(* get_all_documents: the load, returned as it is. *)
GetAll(p) ==
    /\ Begin(p, "list", <<>>, None, <<>>, DefaultTopK)
    /\ \E order \in Perms(DOMAIN files) :
          /\ docs' = [docs EXCEPT ![p] = get_rag_docs(order)]
          /\ result' = [result EXCEPT ![p] = Return(get_rag_docs(order))]
    /\ existing' = [existing EXCEPT ![p] = <<>>]
    /\ pos' = [pos EXCEPT ![p] = 0]
    /\ trace' = [trace EXCEPT ![p] = <<"load">>]
    /\ pc' = [pc EXCEPT ![p] = "done"]
    /\ UNCHANGED <<provided, cleared>>
    /\ NoSave

(* clear_documents: save_rag_docs([]). *)
Clear(p) ==
    /\ Begin(p, "clear", <<>>, None, <<>>, DefaultTopK)
    /\ Save(<<>>)
    /\ cleared' = (cleared \/ ~SaveFails(fault, <<>>))
    /\ result' = [result EXCEPT ![p] = AfterSave(<<>>, <<>>)]
    /\ existing' = [existing EXCEPT ![p] = <<>>]
    /\ pos' = [pos EXCEPT ![p] = 0]
    /\ docs' = [docs EXCEPT ![p] = <<>>]
    /\ trace' = [trace EXCEPT ![p] = <<StoreEvent(fault, <<>>)>>]
    /\ pc' = [pc EXCEPT ![p] = "done"]
    /\ UNCHANGED provided

(* The caller's task is cancelled while it awaits the provider. *)
Cancel(p) ==
    /\ pc[p] \in {"add_embed", "retrieve_embed"}
    /\ pc' = [pc EXCEPT ![p] = "done"]
    /\ result' = [result EXCEPT ![p] =
                     [kind |-> "cancelled", error |-> "CancelledError", msg |-> None,
                      value |-> <<>>]]
    /\ UNCHANGED <<others, fault, backend, now, top_k, callers, op, texts, metadata, existing, pos,
                   docs, query, trace, provided, cleared>>
    /\ NoSave

(* The caller has its answer and is free for its next call. *)
Finish(p) ==
    /\ pc[p] = "done"
    /\ pc' = [pc EXCEPT ![p] = "idle"]
    /\ op' = [op EXCEPT ![p] = "none"]
    /\ texts' = [texts EXCEPT ![p] = <<>>]
    /\ metadata' = [metadata EXCEPT ![p] = None]
    /\ query' = [query EXCEPT ![p] = <<>>]
    /\ top_k' = [top_k EXCEPT ![p] = DefaultTopK]
    /\ existing' = [existing EXCEPT ![p] = <<>>]
    /\ pos' = [pos EXCEPT ![p] = 0]
    /\ docs' = [docs EXCEPT ![p] = <<>>]
    /\ result' = [result EXCEPT ![p] = NoResult]
    /\ trace' = [trace EXCEPT ![p] = <<>>]
    /\ UNCHANGED <<others, fault, backend, now, callers, provided, cleared>>
    /\ NoSave

(* Mutant: add_documents asks for the texts from the last to the first. *)
Awaited_Reversed(p) ==
    IF pc[p] = "add_embed" THEN texts[p][Len(texts[p]) + 1 - pos[p]] ELSE query[p]

(* The text the provider is asked to embed while p awaits it. *)
Awaited(p) == IF pc[p] = "add_embed" THEN texts[p][pos[p]] ELSE query[p]

Next ==
    \/ \E p \in Procs, ts \in SeqsUpTo(TextPool, MaxBatch), md \in MetadataPool :
          AddStart(p, ts, md)
    \/ \E p \in Procs : \E resp \in Responses(Awaited(p)) : AddEmbed(p, resp)
    \/ \E p \in Procs, q \in Queries, k \in TopKValues :
          RetrieveStart(p, q, k)
    \/ \E p \in Procs : \E resp \in Responses(Awaited(p)) : RetrieveEmbed(p, resp)
    \/ \E p \in Procs : GetAll(p)
    \/ \E p \in Procs : Clear(p)
    \/ \E p \in Procs : Cancel(p)
    \/ \E p \in Procs : Finish(p)

Spec == Init /\ [][Next]_vars

---------------------------------------------------------------------------
(* The same calls on a backend that fails. *)

(* The backend starts or stops refusing something. *)
SetFault(f) ==
    /\ f # fault
    /\ fault' = f
    /\ UNCHANGED <<others, backend, files, sidecar, sidecarOk, now, top_k, callers, pc, op, texts,
                   metadata, existing, pos, docs, query, result, trace, provided,
                   lastSaved, cleared>>

(* The sidecar is damaged where it lies: what it holds is JSON no longer. *)
CorruptSidecar ==
    /\ sidecarOk
    /\ sidecarOk' = FALSE
    /\ UNCHANGED <<others, backend, files, sidecar, fault, now, top_k, callers, pc, op, texts,
                   metadata, existing, pos, docs, query, result, trace, provided,
                   lastSaved, cleared>>

(* The calls of a caller, one text at a time and with the default top_k. *)
FaultTexts == {<<t>> : t \in TextPool}

NextFaults ==
    \/ \E p \in Procs, ts \in FaultTexts \cup {<<>>} : AddStart(p, ts, None)
    \/ \E p \in Procs : \E resp \in Responses(Awaited(p)) : AddEmbed(p, resp)
    \/ \E p \in Procs : RetrieveStart(p, <<"q">>, DefaultTopK)
    \/ \E p \in Procs : \E resp \in Responses(Awaited(p)) : RetrieveEmbed(p, resp)
    \/ \E p \in Procs : GetAll(p)
    \/ \E p \in Procs : Clear(p)
    \/ \E p \in Procs : Finish(p)
    \/ \E f \in Faults : SetFault(f)
    \/ CorruptSidecar

SpecFaults == Init /\ [][NextFaults]_vars

---------------------------------------------------------------------------
(* Two callers at once: their requests interleave where add_documents awaits *)
(* the provider.                                                             *)
InitConcurrent == Constructed /\ callers = Procs /\ ChunkIdle /\ DedupeIdle /\ HttpIdle

NextConcurrent ==
    \/ \E p \in Procs, ts \in FaultTexts : AddStart(p, ts, None)
    \/ \E p \in Procs : \E resp \in Responses(Awaited(p)) : AddEmbed(p, resp)
    \/ \E p \in Procs : GetAll(p)
    \/ \E p \in Procs : Finish(p)

SpecConcurrent == InitConcurrent /\ [][NextConcurrent]_vars

(* Two callers that add single texts and retrieve with the default top_k. *)
NextRetrieve ==
    \/ \E p \in Procs, ts \in FaultTexts : AddStart(p, ts, None)
    \/ \E p \in Procs : \E resp \in Responses(Awaited(p)) : AddEmbed(p, resp)
    \/ \E p \in Procs, q \in Queries : RetrieveStart(p, q, DefaultTopK)
    \/ \E p \in Procs : \E resp \in Responses(Awaited(p)) : RetrieveEmbed(p, resp)
    \/ \E p \in Procs : Finish(p)

SpecRetrieve == InitConcurrent /\ [][NextRetrieve]_vars

---------------------------------------------------------------------------
(* The two stores side by side: the store of the manager and a store of the *)
(* other kind are given the same save_rag_docs and get_rag_docs calls, and  *)
(* meet the same faults.                                                    *)
Other(b) == IF b = "fs" THEN "blob" ELSE "fs"

(* Documents a caller of save_rag_docs may hand over. *)
DocPool ==
    {[id |-> id, text |-> t, embedding |-> ModelVector(t), metadata |-> None,
      created_at |-> 1] : id \in Ids, t \in TextPool}

(* What only the manager's calls change. *)
managerVars == <<top_k, callers, pc, op, texts, metadata, existing, pos, docs, query,
                 result, trace, provided, cleared>>

(* save_rag_docs(ds) on both stores. *)
SaveBoth(ds) ==
    /\ Save(ds)
    /\ twin' = [files |-> IF UnitWriteFails(fault, ds) THEN twin.files
                          ELSE UnitsAfterSave(Other(backend), twin.files, ds),
                sidecar |-> IF SaveFails(fault, ds) THEN twin.sidecar
                            ELSE SidecarAfterSave(ds),
                ok |-> IF SaveFails(fault, ds) THEN twin.ok ELSE TRUE]
    /\ answer' = [own |-> AfterSave(ds, <<>>), twin |-> AfterSave(ds, <<>>)]
    /\ UNCHANGED <<backend, now, fault, managerVars, chunkVars, dedupeVars, httpVars>>

(* get_rag_docs() on both stores, which list their text units in one order. *)
LoadBoth(order) ==
    /\ answer' = [own |-> Return(get_rag_docs(order)),
                  twin |-> Return(StoreLoad(Other(backend), twin.files, twin.sidecar,
                                            twin.ok, fault, order))]
    /\ UNCHANGED <<backend, now, fault, twin, managerVars, chunkVars, dedupeVars, httpVars>>
    /\ NoSave

(* The backends start or stop refusing something. *)
SetFaultBoth(f) ==
    /\ f # fault
    /\ fault' = f
    /\ UNCHANGED <<backend, now, twin, answer, managerVars, chunkVars, dedupeVars, httpVars>>
    /\ NoSave

(* Both sidecars are damaged where they lie. *)
CorruptBoth ==
    /\ sidecarOk /\ twin.ok
    /\ sidecarOk' = FALSE
    /\ twin' = [twin EXCEPT !.ok = FALSE]
    /\ UNCHANGED <<backend, now, fault, answer, files, sidecar, lastSaved, managerVars, chunkVars, dedupeVars, httpVars>>

NextStores ==
    \/ \E ds \in SeqsUpTo(DocPool, MaxBatch) : SaveBoth(ds)
    \/ \E order \in Perms(DOMAIN files) : LoadBoth(order)
    \/ \E f \in Faults : SetFaultBoth(f)
    \/ CorruptBoth

SpecStores == Init /\ [][NextStores]_vars

---------------------------------------------------------------------------
(* chunk_markdown applied to a text. *)
InitChunk ==
    /\ Constructed
    /\ callers = {1}
    /\ chunk_text \in SeqsUpTo(Alphabet, MaxTextLen)
    /\ max_chars \in 1..MaxChars
    /\ final = <<>>
    /\ chunked = FALSE
    /\ DedupeIdle
    /\ HttpIdle

Chunk ==
    /\ ~chunked
    /\ final' = chunk_markdown(chunk_text, max_chars)
    /\ chunked' = TRUE
    /\ UNCHANGED <<chunk_text, max_chars, backend, now, fault, twin, answer, managerVars,
                   dedupeVars, httpVars>>
    /\ NoSave

NextChunk == Chunk

SpecChunk == InitChunk /\ [][NextChunk]_vars

---------------------------------------------------------------------------
(* dedupe_chunks applied to chunks and embeddings, as process_file and main *)
(* apply it.                                                                *)
InitDedupe ==
    /\ Constructed
    /\ backend = "fs"
    /\ callers = {1}
    /\ ChunkIdle
    /\ all_chunks \in SeqsUpTo(ChunkPool, MaxChunks)
    /\ chunk_embs \in SeqsUpTo(EmbeddingPool, MaxChunks)
    /\ dup_threshold \in Thresholds
    /\ kept_chunks = <<>>
    /\ deduped = FALSE
    /\ HttpIdle

Dedupe ==
    /\ ~deduped
    /\ kept_chunks' = dedupe_chunks(all_chunks, chunk_embs, dup_threshold)
    /\ deduped' = TRUE
    /\ UNCHANGED <<all_chunks, chunk_embs, dup_threshold, backend, now, fault, twin, answer,
                   managerVars, chunkVars, httpVars>>
    /\ NoSave

NextDedupe == Dedupe

SpecDedupe == InitDedupe /\ [][NextDedupe]_vars

---------------------------------------------------------------------------
(* server.py: the HTTP layer.  One client sends a request at a time; the     *)
(* request goes through auth_middleware to its handler, the handler builds a *)
(* manager (OPENAI_API_KEY is set) and makes its call, and the outcome of    *)
(* the call becomes the status of the response.                              *)

AUTH_BYPASS_PATHS == {"/health", "/api/config"}

(* The status codes. *)
Ok == 200
BadRequest == 400
Unauthorized == 401
MethodNotAllowed == 405
ServerError == 500

(* The routes of the app; none of them takes OPTIONS. *)
Routes == {[method |-> "GET", path |-> "/health"],
           [method |-> "GET", path |-> "/api/config"],
           [method |-> "POST", path |-> "/api/rag/add"],
           [method |-> "GET", path |-> "/api/rag/list"],
           [method |-> "POST", path |-> "/api/rag/clear"],
           [method |-> "POST", path |-> "/api/chat"],
           [method |-> "GET", path |-> "/api/search"]}

Targets == Routes \cup {[method |-> "OPTIONS", path |-> "/api/rag/clear"]}

(* The Authorization header: absent, of another scheme, or a bearer token    *)
(* that jwt.decode accepts ("good") or refuses ("forged").                   *)
Headers == {NoHeader,
            [scheme |-> "Basic", token |-> "good"],
            [scheme |-> "Bearer", token |-> "good"],
            [scheme |-> "bearer", token |-> "good"],
            [scheme |-> "Bearer", token |-> "forged"]}

(* The body or the query string: texts for /api/rag/add, message or q for    *)
(* /api/chat and /api/search.                                                *)
Inputs(path) ==
    IF path = "/api/rag/add"
    THEN {[texts |-> ts, q |-> <<>>] : ts \in {<<>>, <<<<"a">>>>}}
    ELSE IF path \in {"/api/chat", "/api/search"}
    THEN {[texts |-> <<>>, q |-> q] : q \in {<<>>, <<"q">>}}
    ELSE {[texts |-> <<>>, q |-> <<>>]}

Requests ==
    UNION {{[method |-> t.method, path |-> t.path, authorization |-> h,
             texts |-> i.texts, q |-> i.q] : h \in Headers, i \in Inputs(t.path)}
           : t \in Targets}

(* RAG_AUTH_ENABLED is on or not; ENTRA_ISSUER, ENTRA_AUDIENCE and           *)
(* ENTRA_JWKS_URL are all set or not; the signing key can be fetched or not. *)
AuthEnvs == [enabled : BOOLEAN, settings : BOOLEAN, keys : BOOLEAN]

auth_enabled(env) == env.enabled

(* str.lower() of the schemes. *)
Lower(scheme) == IF scheme = "Bearer" THEN "bearer"
                 ELSE IF scheme = "Basic" THEN "basic" ELSE scheme

(* `auth_header.lower().startswith("bearer ")`. *)
IsBearer(h) == Lower(h.scheme) = "bearer"

(* Mutant: a token is taken for verified when its key cannot be fetched. *)
Verifies_WithoutKey(h, env) == env.settings /\ (~env.keys \/ h.token = "good")

(* The try block of auth_middleware runs through: the settings are there,    *)
(* the signing key is found and jwt.decode accepts the token.                *)
Verifies(h, env) == env.settings /\ env.keys /\ h.token = "good"

(* auth_middleware: Unauthorized, or NoStatus for call_next. *)
auth_middleware(req, env) ==
    IF req.method = "OPTIONS" THEN NoStatus
    ELSE IF ~auth_enabled(env) \/ req.path \in AUTH_BYPASS_PATHS THEN NoStatus
    ELSE IF ~IsBearer(req.authorization) THEN Unauthorized
    ELSE IF ~Verifies(req.authorization, env) THEN Unauthorized
    ELSE NoStatus

(* `if not request.texts`, `if not request.message`, `if not q`. *)
InputMissing(req) ==
    \/ req.path = "/api/rag/add" /\ req.texts = <<>>
    \/ req.path \in {"/api/chat", "/api/search"} /\ req.q = <<>>

(* The status of the response when HTTPException(status) is raised inside    *)
(* the try block of a handler: `except Exception` catches it, as it catches  *)
(* any other exception, and raises HTTPException(500) in its place.          *)
RaisedInTry(status) == ServerError

(* The handler up to its call of the manager: the status it answers with, or *)
(* NoStatus when the call is to be made.                                     *)
HandlerEntry(req) ==
    IF req.path \in {"/health", "/api/config"} THEN Ok
    ELSE IF InputMissing(req) THEN RaisedInTry(BadRequest)
    ELSE NoStatus

InitHttp ==
    /\ Constructed
    /\ callers = {1}
    /\ ChunkIdle
    /\ DedupeIdle
    /\ auth_env \in AuthEnvs
    /\ request = NoRequest
    /\ response = NoStatus
    /\ handled = FALSE

(* A request is in progress: it has come in and is not answered. *)
Pending == request # NoRequest /\ response = NoStatus

(* A request comes in and goes through auth_middleware, the router and the   *)
(* handler up to its call of the manager.                                    *)
HttpRequest(req) ==
    /\ ~Pending
    /\ pc[1] = "idle"
    /\ request' = req
    /\ IF auth_middleware(req, auth_env) = Unauthorized
       THEN /\ response' = Unauthorized
            /\ handled' = FALSE
       ELSE IF req.method = "OPTIONS"
       THEN /\ response' = MethodNotAllowed
            /\ handled' = FALSE
       ELSE /\ response' = HandlerEntry(req)
            /\ handled' = TRUE
    /\ UNCHANGED <<auth_env, backend, now, fault, twin, answer, managerVars, chunkVars,
                   dedupeVars>>
    /\ NoSave

(* The handler makes its call of the manager. *)
HttpCall ==
    /\ Pending
    /\ handled
    /\ \/ request.path = "/api/rag/add" /\ AddStart(1, request.texts, None)
       \/ request.path = "/api/rag/list" /\ GetAll(1)
       \/ request.path = "/api/rag/clear" /\ Clear(1)
       \/ request.path = "/api/chat" /\ RetrieveStart(1, request.q, DefaultTopK)
       \/ request.path = "/api/search" /\ RetrieveStart(1, request.q, DefaultTopK)

(* The call has ended and the handler answers: what the call raised, or what *)
(* generate_response raises in /api/chat, is answered with 500.              *)
HttpRespond ==
    /\ Pending
    /\ pc[1] = "done"
    /\ \E generated \in BOOLEAN :
          response' = IF result[1].kind # "returned" THEN ServerError
                      ELSE IF request.path = "/api/chat" /\ ~generated THEN ServerError
                      ELSE Ok
    /\ UNCHANGED <<auth_env, request, handled, backend, now, fault, twin, answer, managerVars,
                   chunkVars, dedupeVars>>
    /\ NoSave

(* The request is over. *)
HttpFinish == ~Pending /\ Finish(1)

NextHttp ==
    \/ \E req \in Requests : HttpRequest(req)
    \/ HttpCall
    \/ \E resp \in Responses(Awaited(1)) : AddEmbed(1, resp)
    \/ \E resp \in Responses(Awaited(1)) : RetrieveEmbed(1, resp)
    \/ HttpRespond
    \/ HttpFinish

SpecHttp == InitHttp /\ [][NextHttp]_vars

---------------------------------------------------------------------------
(* What the claims speak of. *)

(* The set loadAll returns in this state: ids, texts, embeddings, metadata. *)
LoadedSet == {Strip(LoadDoc(id)) : id \in DOMAIN files}

(* p's call has ended with a return value. *)
Returned(p, name) == pc[p] = "done" /\ op[p] = name /\ result[p].kind = "returned"

(* C1: after saveAll(docs), whatever was persisted before, loadAll returns    *)
(* exactly the set docs (same ids, texts, embeddings, metadata); documents    *)
(* persisted earlier and not in docs are no longer returned.                  *)
C1_SaveAllThenLoadAll == lastSaved.saved => LoadedSet = lastSaved.docs

(* C2: after clearAll completes, and until the next addDocuments, loadAll and *)
(* list return no document and retrieve returns an empty sequence.            *)
C2_ClearedStaysEmpty ==
    cleared =>
        /\ LoadedSet = {}
        /\ \A p \in Procs :
              Returned(p, "list") \/ Returned(p, "retrieve") => result[p].value = <<>>

(* add_documents of p: the documents it loaded (S) and those it made. *)
LoadedBy(p) == SubSeq(existing[p], 1, Len(existing[p]) - Len(texts[p]))
MadeBy(p) == SubSeq(existing[p], Len(existing[p]) - Len(texts[p]) + 1, Len(existing[p]))

(* C3: a successful addDocuments(texts) on a store whose loadAll returned S   *)
(* returns count = len(texts), and afterwards loadAll returns S plus exactly  *)
(* len(texts) new documents with pairwise distinct fresh ids, the i-th with   *)
(* texts[i] and the embedding the provider returned for texts[i].             *)
C3_AddDocumentsAppends ==
    \A p \in Procs :
        Returned(p, "add") =>
            LET n == Len(texts[p])
                made == MadeBy(p)
            IN  /\ result[p].value = n
                /\ Len(made) = n
                /\ \A i, j \in 1..n : made[i].id = made[j].id => i = j
                /\ IdsOf(made) \cap IdsOf(LoadedBy(p)) = {}
                /\ {d.id : d \in LoadedSet} = IdsOf(LoadedBy(p)) \cup IdsOf(made)
                /\ StripAll(LoadedBy(p)) \subseteq LoadedSet
                /\ \A i \in 1..n :
                      \E d \in LoadedSet :
                          /\ d.id = made[i].id
                          /\ d.text = texts[p][i]
                          /\ d.embedding = provided[d.id]

(* C4: addDocuments with an empty texts sequence fails with ValueError and    *)
(* performs no store read, no embedding call and no store write: the          *)
(* persisted set is unchanged.                                                *)
C4_EmptyTextsRejected ==
    [][\A p \in Procs :
          (pc[p] = "idle" /\ op'[p] = "add" /\ texts'[p] = <<>>) =>
              /\ pc'[p] = "done"
              /\ result'[p] = Raise("ValueError", "texts_required")
              /\ trace'[p] = <<>>
              /\ files' = files
              /\ sidecar' = sidecar]_vars

C4_Witness ==
    \E p \in Procs :
        /\ pc[p] = "done" /\ op[p] = "add" /\ texts[p] = <<>>
        /\ result[p].kind = "raised"
        /\ DOMAIN files # {}

(* C5: whenever the provider fails (non-success response, or payload without  *)
(* a vector) during addDocuments or during retrieve on a non-empty store, the *)
(* operation ends with that error raised; it never returns a success result.  *)
C5_EmbeddingFailureRaised ==
    \A p \in Procs :
        (\E i \in 1..Len(trace[p]) : trace[p][i] = "embed_error") =>
            /\ pc[p] = "done"
            /\ result[p].kind = "raised"
            /\ result[p].error \in {"Exception", "ValueError"}
            /\ trace[p][Len(trace[p])] = "embed_error"

C5_Witness ==
    \E p \in Procs :
        /\ pc[p] = "done" /\ op[p] = "add" /\ result[p].kind = "raised"
        /\ trace[p] = <<"load", "embed", "embed_error">>

(* C6: if addDocuments stops (embedding failure or cancellation) before its   *)
(* final saveAll, the persisted set is what it was before the call: every     *)
(* step of the call other than the one that returns leaves the text units and *)
(* the sidecar as they were.                                                  *)
C6_NoPartialPersist ==
    [][\A p \in Procs :
          (op'[p] = "add" /\ ~(pc'[p] = "done" /\ result'[p].kind = "returned")) =>
              (files' = files /\ sidecar' = sidecar)]_vars

C6_Witness ==
    \E p \in Procs :
        /\ pc[p] = "done" /\ op[p] = "add"
        /\ result[p].kind \in {"raised", "cancelled"}
        /\ pos[p] >= 2
        /\ IdsOf(existing[p]) \ DOMAIN files # {}

(* C7: every document persisted or returned by loadAll carries the embedding  *)
(* the provider produced for it at ingestion; none is persisted or returned   *)
(* with an empty or placeholder embedding.                                    *)
C7_EmbeddingsKept ==
    /\ \A id \in DOMAIN files :
          LoadDoc(id).embedding = provided[id] /\ LoadDoc(id).embedding # <<>>
    /\ \A id \in DOMAIN sidecar :
          sidecar[id].embedding = provided[id] /\ sidecar[id].embedding # <<>>

(* C8: for every top_k that can be set and every store of n documents,        *)
(* retrieve returns exactly min(top_k, n) documents.                          *)
C8_TopKBound ==
    \A p \in Procs :
        Returned(p, "retrieve") =>
            Len(result[p].value) = Min(top_k[p], Len(docs[p]))

(* The score retrieve gives a document for p's query, and the place of a *)
(* document in what p loaded.                                            *)
ScoreFor(p, d) == cosine_similarity(ModelVector(query[p]), d.embedding)
LoadIndex(p, d) == CHOOSE i \in 1..Len(docs[p]) : docs[p][i].id = d.id

(* C9: retrieve returns documents in non-increasing order of cosine           *)
(* similarity to the query embedding, equal scores in the order loadAll       *)
(* returned them, and no document left out scores strictly higher than one    *)
(* returned.                                                                  *)
C9_RankedOrder ==
    \A p \in Procs :
        Returned(p, "retrieve") =>
            LET v == result[p].value
            IN  /\ \A i \in 1..Len(v) : \E k \in 1..Len(docs[p]) : docs[p][k] = v[i]
                /\ \A i, j \in 1..Len(v) :
                      i < j =>
                          /\ ~ScoreGT(ScoreFor(p, v[j]), ScoreFor(p, v[i]))
                          /\ ScoreEQ(ScoreFor(p, v[i]), ScoreFor(p, v[j])) =>
                                 LoadIndex(p, v[i]) < LoadIndex(p, v[j])
                /\ \A k \in 1..Len(docs[p]) :
                      (\A i \in 1..Len(v) : v[i].id # docs[p][k].id) =>
                          \A i \in 1..Len(v) :
                              ~ScoreGT(ScoreFor(p, docs[p][k]), ScoreFor(p, v[i]))

C9_Witness ==
    \E p \in Procs :
        /\ Returned(p, "retrieve")
        /\ Len(result[p].value) = 2
        /\ ScoreEQ(ScoreFor(p, result[p].value[1]), ScoreFor(p, result[p].value[2]))
        /\ result[p].value[1].embedding # result[p].value[2].embedding
        /\ LoadIndex(p, result[p].value[1]) = 1

(* C10: when loadAll yields no documents, retrieve returns an empty sequence  *)
(* and raises no error, whatever the provider would do: it is not called.     *)
C10_EmptyStoreRetrieve ==
    \A p \in Procs :
        (op[p] = "retrieve" /\ docs[p] = <<>>) =>
            /\ pc[p] = "done"
            /\ result[p] = Return(<<>>)
            /\ trace[p] = <<"load">>

C10_Witness ==
    \E p \in Procs :
        /\ Returned(p, "retrieve")
        /\ docs[p] = <<>>
        /\ top_k[p] # DefaultTopK

(* C15: a stored document is immutable: the createdAt, text and embedding     *)
(* loadAll reports for a document id are the same at every load for as long   *)
(* as that id is returned.                                                    *)
C15_DocumentsImmutable ==
    [][\A id \in DOMAIN files \cap DOMAIN files' :
          /\ LoadDoc(id)'.text = LoadDoc(id).text
          /\ LoadDoc(id)'.embedding = LoadDoc(id).embedding
          /\ LoadDoc(id)'.created_at = LoadDoc(id).created_at]_vars

---------------------------------------------------------------------------
(* The failing backend (SpecFaults). *)

(* C11: loadAll never raises to its caller: when the backend is unavailable   *)
(* or the sidecar is corrupt or unreadable, it returns an empty sequence, in  *)
(* the file store and in the blob store alike.  Stated of list, which returns *)
(* what loadAll returned.                                                     *)
C11_LoadAllDegradesToEmpty ==
    [][\A p \in Procs :
          (pc[p] = "idle" /\ op'[p] = "list") =>
              /\ result'[p].kind = "returned"
              /\ (fault = "unavailable" \/ ~sidecarOk) => result'[p].value = <<>>]_vars

(* C12: a saveAll that cannot write (a text unit or the sidecar) ends with an *)
(* error raised to the caller: addDocuments and clearAll never report success *)
(* when the write failed.                                                     *)
C12_SaveFailureRaised ==
    \A p \in Procs :
        (\E i \in 1..Len(trace[p]) : trace[p][i] = "save_error") =>
            /\ pc[p] = "done"
            /\ op[p] \in {"add", "clear"}
            /\ result[p].kind = "raised"
            /\ trace[p][Len(trace[p])] = "save_error"

C12_Witness ==
    \E p \in Procs :
        /\ pc[p] = "done" /\ op[p] = "add" /\ result[p].kind = "raised"
        /\ trace[p] = <<"load", "embed", "save_error">>
        /\ fault = "sidecar"
        /\ IdsOf(existing[p]) \subseteq DOMAIN files
        /\ ~(IdsOf(existing[p]) \subseteq DOMAIN sidecar)

---------------------------------------------------------------------------
(* Concurrent callers (SpecConcurrent). *)

(* Both calls of add_documents loaded before either saved: neither loaded a *)
(* document the other made.                                                 *)
BothLoadedFirst ==
    \A p, q \in Procs : p # q => IdsOf(LoadedBy(p)) \cap IdsOf(MadeBy(q)) = {}

(* C13: when two addDocuments calls run concurrently and both load before     *)
(* either saves, then after both complete loadAll holds exactly the set       *)
(* written by whichever saveAll ran last: the documents the other caller      *)
(* added are lost.                                                            *)
C13_LastWriteWins ==
    ((\A p \in Procs : Returned(p, "add")) /\ BothLoadedFirst) =>
        LoadedSet = lastSaved.docs

---------------------------------------------------------------------------
(* The two stores side by side (SpecStores). *)

(* C14: the file store and the blob store are observationally equivalent:     *)
(* given the same saveAll and loadAll calls and the same faults, both return  *)
(* the same loadAll results and raise in the same cases.                      *)
C14_BackendsEquivalent == answer.own = answer.twin

---------------------------------------------------------------------------
(* chunk_markdown (SpecChunk). *)

HasSpace(s) == \E i \in 1..Len(s) : IsSpace(s[i])

(* s with its whitespace deleted. *)
NonSpace(c) == ~IsSpace(c)
DeleteSpace(s) == SelectSeq(s, NonSpace)

(* The chunks one after the other. *)
Concat(cs) == join(cs, <<>>)

(* C16: for every text and every max_chars >= 1, every chunk of               *)
(* chunk_markdown has length <= max_chars; the only permitted exception is a  *)
(* chunk that is one whitespace-free token longer than max_chars.             *)
C16_ChunkSizeBound ==
    chunked =>
        \A i \in 1..Len(final) :
            Len(final[i]) <= max_chars \/ ~HasSpace(final[i])

C16_Witness ==
    /\ chunked
    /\ Len(chunk_text) > max_chars
    /\ \E i \in 1..Len(chunk_text) : chunk_text[i] = " "
    /\ \A i \in 1..Len(chunk_text) : chunk_text[i] # LF
    /\ strip(chunk_text) = chunk_text
    /\ \E i \in 1..Len(final) : Len(final[i]) = max_chars /\ max_chars >= 2

(* C17: for every text and every max_chars >= 1, the chunks concatenated in   *)
(* output order, whitespace deleted, are the text with whitespace deleted: no *)
(* other character is dropped, duplicated or reordered, on the line-split and *)
(* hard-slice paths as well.                                                  *)
C17_ChunksLossless ==
    chunked => DeleteSpace(Concat(final)) = DeleteSpace(chunk_text)

C17_Witness ==
    /\ chunked
    /\ Len(final) >= 3
    /\ \E i, j, k \in 1..Len(chunk_text) :
          /\ chunk_text[i] = "a" /\ chunk_text[j] = "b"
          /\ 1 < k /\ k < Len(chunk_text) /\ chunk_text[k] = LF
          /\ chunk_text[k - 1] # LF /\ chunk_text[k + 1] # LF
    /\ \E i \in 1..Len(chunk_text) : chunk_text[i] = " "

(* C18: for every text and every max_chars >= 1, no chunk of chunk_markdown   *)
(* is empty or whitespace-only, chunks made by line splitting and by hard     *)
(* slicing included.                                                          *)
C18_NoBlankChunk ==
    chunked => \A i \in 1..Len(final) : strip(final[i]) # <<>>

(* C19: for every non-blank text of length <= max_chars, whatever its         *)
(* paragraphs, chunk_markdown returns exactly one chunk.                      *)
C19_ShortTextOneChunk ==
    (chunked /\ strip(chunk_text) # <<>> /\ Len(chunk_text) <= max_chars) =>
        Len(final) = 1

(* ceil(n / m) *)
Ceil(n, m) == (n + m - 1) \div m

(* One paragraph: not blank, trimmed, no blank line inside. *)
SingleParagraph(s) ==
    /\ s # <<>>
    /\ strip(s) = s
    /\ \A i \in 1..(Len(s) - 1) : ~(s[i] = LF /\ s[i + 1] = LF)

(* C20 as claimed: a single paragraph of length L (words and spaces allowed)  *)
(* yields ceil(L / max_chars) chunks, none longer than max_chars, that        *)
(* concatenate back to it (5000 characters and max_chars = 2000: 3 chunks).   *)
C20_ParagraphCeilChunks ==
    (chunked /\ SingleParagraph(chunk_text)) =>
        /\ Len(final) = Ceil(Len(chunk_text), max_chars)
        /\ \A i \in 1..Len(final) : Len(final[i]) <= max_chars
        /\ Concat(final) = chunk_text

(* C20 as amended: a single paragraph of length L without whitespace yields   *)
(* ceil(L / max_chars) chunks, none longer than max_chars, that concatenate   *)
(* back to it.                                                                *)
C20_TokenCeilChunks ==
    (chunked /\ chunk_text # <<>> /\ ~HasSpace(chunk_text)) =>
        /\ Len(final) = Ceil(Len(chunk_text), max_chars)
        /\ \A i \in 1..Len(final) : Len(final[i]) <= max_chars
        /\ Concat(final) = chunk_text

C20_Witness ==
    /\ chunked
    /\ ~HasSpace(chunk_text)
    /\ Len(chunk_text) = 5 /\ max_chars = 2
    /\ Len(final) = 3
    /\ Len(final[3]) = 1

(* What dedupe_chunks kept: the indices, the texts, the embeddings. *)
KeptIndex(i) == kept_chunks[i][1]
KeptTexts == [i \in 1..Len(kept_chunks) |-> kept_chunks[i][2]]
KeptEmbeddings == [i \in 1..Len(kept_chunks) |-> chunk_embs[KeptIndex(i) + 1]]

(* The pairs dedupe_chunks went through. *)
Pairs == ZipLen(all_chunks, chunk_embs)

(* C21: dedupe_chunks run again, with the same threshold, on the chunks it   *)
(* kept and their embeddings keeps every one of them, for every input and    *)
(* every threshold.                                                          *)
C21_DedupeFixedPoint ==
    deduped =>
        dedupe_chunks(KeptTexts, KeptEmbeddings, dup_threshold)
            = [i \in 1..Len(kept_chunks) |-> <<i - 1, KeptTexts[i]>>]

(* dedupe_chunks kept several chunks and discarded one. *)
C21_Witness ==
    /\ deduped
    /\ Len(kept_chunks) >= 2
    /\ Len(kept_chunks) < Pairs

(* C22: the indices in the output of dedupe_chunks are strictly increasing,  *)
(* each is an index of the input, and the text paired with index i is the    *)
(* input chunk at position i.                                                *)
C22_IndicesIncreasing ==
    deduped =>
        \A i \in 1..Len(kept_chunks) :
            /\ KeptIndex(i) \in 0..(Len(all_chunks) - 1)
            /\ kept_chunks[i][2] = all_chunks[KeptIndex(i) + 1]
            /\ i > 1 => KeptIndex(i - 1) < KeptIndex(i)

(* A chunk was kept after a discarded one whose text was another. *)
C22_Witness ==
    /\ deduped
    /\ \E i \in 1..Len(kept_chunks) :
          /\ KeptIndex(i) >= i
          /\ all_chunks[i] # kept_chunks[i][2]

(* The thresholds at or above the one dedupe_chunks ran with. *)
NotBelow == {t \in Thresholds : t = dup_threshold \/ ScoreGT(t, dup_threshold)}

(* How many chunks dedupe_chunks keeps of the same input at threshold t. *)
KeptAt(t) == Len(dedupe_chunks(all_chunks, chunk_embs, t))

(* C23 as stated: for the same chunks and embeddings and thresholds t1 <= t2, *)
(* dedupe_chunks keeps at t2 at least as many chunks as at t1.                *)
C23_ThresholdMonotone ==
    deduped => \A t \in NotBelow : KeptAt(t) >= Len(kept_chunks)

(* C23, amended: for an input of at most three chunks and thresholds          *)
(* t1 <= t2, dedupe_chunks keeps at t2 at least as many chunks as at t1.      *)
C23_MonotoneUpToThree ==
    (deduped /\ Pairs <= 3) => \A t \in NotBelow : KeptAt(t) >= Len(kept_chunks)

(* Of three chunks, a higher threshold keeps more. *)
C23_Witness ==
    /\ deduped
    /\ Pairs = 3
    /\ \E t \in NotBelow : KeptAt(t) > Len(kept_chunks)

(* Two vectors for which the sentinel is due: of different lengths, or one   *)
(* of norm zero.                                                             *)
SentinelDue(a, b) == Len(a) # Len(b) \/ Dot(a, a) = 0 \/ Dot(b, b) = 0

(* C24: cosine similarity is 0.0 whenever the two vectors have different     *)
(* lengths or either has zero norm, in the function retrieval uses and in    *)
(* the one deduplication uses.                                               *)
C24_CosineSentinel ==
    \A i, j \in 1..Len(chunk_embs) :
        SentinelDue(chunk_embs[i], chunk_embs[j]) =>
            /\ cosine_similarity(chunk_embs[i], chunk_embs[j]) = ZeroScore
            /\ dedupe_cosine_similarity(chunk_embs[i], chunk_embs[j]) = ZeroScore

(* The indices dedupe_chunks kept, and those of them before idx. *)
KeptIndices == {KeptIndex(i) : i \in 1..Len(kept_chunks)}
KeptBefore(idx) == {k \in KeptIndices : k < idx}

(* The similarity of the chunk idx to the chunk k before it. *)
Sim(idx, k) == dedupe_cosine_similarity(chunk_embs[idx + 1], chunk_embs[k + 1])

(* sim < threshold. *)
Below(sim) == ScoreGT(dup_threshold, sim)

(* C26: dedupe_chunks is the greedy filter: chunk i is kept if and only if   *)
(* its similarity to every chunk kept before it is below the threshold;      *)
(* any two kept chunks are below the threshold, every discarded chunk is at  *)
(* or above it with some earlier kept chunk, and the first chunk is kept.    *)
C26_GreedyFilter ==
    deduped =>
        /\ KeptIndices \subseteq 0..(Pairs - 1)
        /\ \A idx \in 0..(Pairs - 1) :
              idx \in KeptIndices <=> \A k \in KeptBefore(idx) : Below(Sim(idx, k))
        /\ \A idx \in KeptIndices : \A k \in KeptBefore(idx) : Below(Sim(idx, k))
        /\ \A idx \in (0..(Pairs - 1)) \ KeptIndices :
              \E k \in KeptBefore(idx) : ~Below(Sim(idx, k))
        /\ Pairs >= 1 => 0 \in KeptIndices

(* A chunk was discarded for a similarity equal to the threshold, and a      *)
(* later chunk was kept.                                                     *)
C26_Witness ==
    /\ deduped
    /\ Len(kept_chunks) >= 2
    /\ \E idx \in (0..(Pairs - 1)) \ KeptIndices :
          /\ \A k \in KeptBefore(idx) : ~ScoreGT(Sim(idx, k), dup_threshold)
          /\ \E k \in KeptIndices : k > idx

(* The documents p's call loaded, as a set. *)
DocsLoaded(p) == {docs[p][i] : i \in 1..Len(docs[p])}

(* C25: two retrieve calls with the same query, against the same persisted   *)
(* documents and with a deterministic provider, return the same ranked list, *)
(* documents of equal score in the same order.                               *)
C25_RetrievalDeterministic ==
    (/\ Returned(1, "retrieve") /\ Returned(2, "retrieve")
     /\ query[1] = query[2]
     /\ top_k[1] = top_k[2]
     /\ DocsLoaded(1) = DocsLoaded(2))
        => result[1].value = result[2].value

(* The embeddings p's add_documents has got, and the documents made of them. *)
EmbedsDone(p) == Cardinality({i \in 1..Len(trace[p]) : trace[p][i] = "embed"})
Made(p) == SubSeq(existing[p], Len(existing[p]) - EmbedsDone(p) + 1, Len(existing[p]))

(* C27: within one add_documents the events are: one load; then the          *)
(* embedding of texts[0], texts[1], ... one after the other, in input order; *)
(* then one save, after the last embedding; no save between embeddings.      *)
C27_AddEventsOrdered ==
    \A p \in callers :
        (op[p] = "add" /\ trace[p] # <<>>) =>
            /\ trace[p][1] = "load"
            /\ Len(trace[p]) <= Len(texts[p]) + 2
            /\ \A i \in 2..Len(trace[p]) :
                  IF i = Len(texts[p]) + 2 THEN trace[p][i] \in {"save", "save_error"}
                  ELSE IF i = Len(trace[p]) THEN trace[p][i] \in {"embed", "embed_error"}
                  ELSE trace[p][i] = "embed"
            /\ pc[p] = "add_embed" =>
                  /\ pos[p] \in 1..Len(texts[p])
                  /\ Len(trace[p]) = pos[p]
                  /\ EmbedsDone(p) = pos[p] - 1
            /\ \A i \in 1..EmbedsDone(p) :
                  /\ Made(p)[i].text = texts[p][i]
                  /\ Made(p)[i].embedding = ModelVector(texts[p][i])
            /\ Returned(p, "add") =>
                  /\ Len(trace[p]) = Len(texts[p]) + 2
                  /\ trace[p][Len(trace[p])] = "save"

(* add_documents of two different texts has returned. *)
C27_Witness ==
    /\ Returned(1, "add")
    /\ Len(texts[1]) = 2
    /\ texts[1][1] # texts[1][2]
    /\ trace[1] = <<"load", "embed", "embed", "save">>

(* The chunks of chunk_text that reach the hard-slice loop: those still      *)
(* longer than max_chars after the paragraph and the line pass.              *)
ToSlice ==
    LET out == SplitLong(Chunks(chunk_text, max_chars), max_chars)
    IN  {out[i] : i \in {j \in 1..Len(out) : Len(out[j]) > max_chars}}

(* C28: chunk_markdown terminates for every text and every max_chars >= 1:   *)
(* an iteration of the hard-slice loop that begins at start < L ends with    *)
(* start < end <= L, also when the cut is moved back to the last space, so   *)
(* that L - start decreases until the loop ends.                             *)
C28_SliceLoopAdvances ==
    max_chars >= 1 =>
        \A c \in ToSlice : \A start \in 0..(Len(c) - 1) :
            /\ SliceEnd(c, start, max_chars) > start
            /\ SliceEnd(c, start, max_chars) <= Len(c)

(* chunk_markdown has returned, having sliced a chunk whose first cut moved  *)
(* back to a space and whose next slice began at that space.                 *)
C28_Witness ==
    /\ chunked
    /\ \E c \in ToSlice :
          /\ SliceEnd(c, 0, max_chars) < Min(max_chars, Len(c))
          /\ c[SliceEnd(c, 0, max_chars) + 1] = " "
          /\ SliceEnd(c, SliceEnd(c, 0, max_chars), max_chars) < Len(c)

(* The request in progress or last answered has made no call of the manager: *)
(* no load, no save, no embedding.                                           *)
NoManagerCall == pc[1] = "idle" /\ op[1] = "none" /\ trace[1] = <<>>

(* C29: POST /api/rag/add with empty texts, POST /api/chat with an empty     *)
(* message and GET /api/search with an empty q are each answered with 400,   *)
(* and none of them performs a store or an embedding operation.              *)
C29_InvalidInputIs400 ==
    (request # NoRequest /\ handled /\ InputMissing(request)) =>
        /\ response = BadRequest
        /\ NoManagerCall

(* The request is one that auth_middleware has to authenticate. *)
AuthDue ==
    /\ request # NoRequest
    /\ auth_env.enabled
    /\ request.method # "OPTIONS"
    /\ request.path \notin {"/health", "/api/config"}

(* The request carries a bearer token that validates. *)
ValidToken ==
    /\ request.authorization.scheme \in {"Bearer", "bearer"}
    /\ request.authorization.token = "good"
    /\ auth_env.settings
    /\ auth_env.keys

(* C30: with auth enabled, a non-OPTIONS request to a path other than        *)
(* /health and /api/config reaches its handler only if it carries a bearer   *)
(* token that validates; otherwise, also when auth settings are missing or   *)
(* the key lookup fails, the response is 401 and no handler runs.            *)
C30_AuthRequired ==
    AuthDue =>
        /\ handled => ValidToken
        /\ ~ValidToken => (response = Unauthorized /\ ~handled /\ NoManagerCall)

(* A request with a good token was refused because the key lookup failed. *)
C30_Witness ==
    /\ AuthDue
    /\ request.authorization = [scheme |-> "Bearer", token |-> "good"]
    /\ auth_env.settings /\ ~auth_env.keys
    /\ response = Unauthorized


====
